---- MODULE Spec2Model ----
(***************************************************************************)
(* The geometry kernel of Geometry_Calculater: the store of named points   *)
(* and segments of GeometryAnalyzer (src/main.py), its relation analysis,  *)
(* its constructions and the vector calculator, together with the          *)
(* GeometryGUI handlers that change the store (delete_point,               *)
(* delete_segment, delete_selected_calculation, calculate_vector, ...).    *)
(* SpecSymbolic is the store of src/2Dcalculate.py, whose points keep      *)
(* their coordinates as expressions.                                       *)
(*                                                                         *)
(* Numbers.  A Python float is modelled as a fixed-point number: an        *)
(* integer count of units of 5e-7, so 1e-6 is 2 units and 0.01 is 20000    *)
(* units.  Products of two coordinates are in units^2 (2.5e-13).  The      *)
(* three non-finite floats are the reserved values FInf, FNegInf, FNaN.    *)
(* A square root is rounded down to a whole unit; it is exact whenever     *)
(* the squared length is a perfect square.                                 *)
(*                                                                         *)
(* Names.  A Python string is modelled as the sequence of its pieces: the  *)
(* separator "_" is a piece of its own and every maximal run of other      *)
(* characters is one piece, so that concatenation around "_" is \o and     *)
(* str.startswith is a comparison of leading pieces.                       *)
(***************************************************************************)
EXTENDS Integers, Sequences, FiniteSets, TLC

\* ------------------------------------------------------------- bounds
\* The clock (milliseconds) is read by every construction; it stops here.
MaxClock == 2
\* An operation is taken only when the store it leaves has at most this many
\* points and segments,
MaxPoints == 3
MaxSegments == 2
\* and only coordinates in this range (|x| <= MaxCoord keeps every sum of
\* three squared differences below 2^31).
MaxCoord == 13000

\* ------------------------------------------------------ float values
FInf == 2000000000
FNegInf == -2000000000
FNaN == 2000000001
NonFinite == {FInf, FNegInf, FNaN}
\* A positive float below 1.5e-162 (1e-200, say): its square is 0.0.
FTiny == 2000000002

\* 1e-6 in units^2: the threshold on |dot|.
DotTol == 4000000
\* numpy.allclose's default atol, 1e-8, in units^2 (rtol multiplies |0|).
CrossAtol == 40000
\* 1e-6 in units: the threshold on |len1 - len2|.
LenTol == 2
\* 0.01 in units: the step of round(x, 2) on a length.
Hundredth == 20000

Abs(n) == IF n < 0 THEN -n ELSE n

\* round(a / b, 2 decimal places) as a count of steps, for a >= 0 and b > 0:
\* Python rounds to the nearest step, an exact tie to the even one.
RoundDiv(a, b) ==
  LET q == a \div b
      r == a % b
  IN  IF 2 * r < b THEN q
      ELSE IF 2 * r > b THEN q + 1
      ELSE IF q % 2 = 0 THEN q ELSE q + 1

RECURSIVE SqrtIter(_, _, _)
SqrtIter(n, lo, hi) ==
  IF lo >= hi THEN lo
  ELSE LET mid == (lo + hi + 1) \div 2
       IN  IF mid * mid <= n THEN SqrtIter(n, mid, hi) ELSE SqrtIter(n, lo, mid - 1)

\* The square root of n >= 0, rounded down.
Sqrt(n) == SqrtIter(n, 0, 46340)

\* ------------------------------------------------------------- names
Us == "_"
EmptyName == <<>>

startswith(name, prefix) ==
  /\ Len(name) >= Len(prefix)
  /\ SubSeq(name, 1, Len(prefix)) = prefix

TempPrefix == <<"temp", Us>>
ResultPrefix == <<"result", Us>>
OName == <<"O">>

\* str(int(time.time() * 1000)) for the clock value c.
Stamp(c) == ToString(c)

\* ------------------------------------------------- coordinate inputs
\* What a caller can hand to add_point as one coordinate: a numeral or a
\* float with value v, or text that sympy reads as oo, -oo, nan, zoo (1/0),
\* an expression with a free variable (x+1), or malformed text (1+).
Num(n) == [kind |-> "num", v |-> n]
Txt(k) == [kind |-> k, v |-> 0]

\* float(sp.sympify(x).evalf()): the value, or a raised exception.
Resolve(e) ==
  CASE e.kind = "num" -> [ok |-> TRUE, val |-> e.v]
    [] e.kind = "oo" -> [ok |-> TRUE, val |-> FInf]
    [] e.kind = "-oo" -> [ok |-> TRUE, val |-> FNegInf]
    [] e.kind = "nan" -> [ok |-> TRUE, val |-> FNaN]
    [] OTHER -> [ok |-> FALSE, val |-> 0]

\* ------------------------------------------------------------- state
VARIABLES
  points,               \* GeometryAnalyzer.points: name -> <<x, y, z>>
  segments,             \* GeometryAnalyzer.segments in insertion order
  vectors_to_display,   \* GeometryAnalyzer.vectors_to_display
  circles_and_spheres,  \* GeometryAnalyzer.circles_and_spheres: name -> info
  clock,                \* what int(time.time() * 1000) returns now
  last                  \* the operation just carried out and how it ended

vars == <<points, segments, vectors_to_display, circles_and_spheres, clock, last>>

Put(f, k, v) == [x \in DOMAIN f \cup {k} |-> IF x = k THEN v ELSE f[x]]
Remove(f, K) == [x \in DOMAIN f \ K |-> f[x]]

SegNames(segs) == {segs[i].name : i \in 1..Len(segs)}
SegByName(segs, n) == segs[CHOOSE i \in 1..Len(segs) : segs[i].name = n]
DropSegs(segs, N) == SelectSeq(segs, LAMBDA s : s.name \notin N)

\* What a handler leaves in hand: the operation, how it ended, its two
\* name arguments and, for a call that returns a value, that value.
NoOut == [none |-> TRUE]
DoneWith(op, res, a, b, out) == [op |-> op, res |-> res, a |-> a, b |-> b, out |-> out]
Done(op, res, a, b) == DoneWith(op, res, a, b, NoOut)

\* ---------------------------------------------------- kernel: store
\* GeometryAnalyzer.add_point: [ok, points].
add_point(pts, name, x, y, z) ==
  IF name \in DOMAIN pts THEN [ok |-> FALSE, points |-> pts]
  ELSE LET xr == Resolve(x)
           yr == Resolve(y)
           zr == Resolve(z)
       IN  IF xr.ok /\ yr.ok /\ zr.ok
             THEN [ok |-> TRUE, points |-> Put(pts, name, <<xr.val, yr.val, zr.val>>)]
             ELSE [ok |-> FALSE, points |-> pts]

seg_name(start, end) == start \o <<Us>> \o end

\* An add_segment that does not look for the derived name among the segments.
add_segment_no_name_check(pts, segs, start, end, color, linestyle) ==
  IF start \notin DOMAIN pts \/ end \notin DOMAIN pts
    THEN [ok |-> FALSE, segments |-> segs]
  ELSE [ok |-> TRUE,
        segments |-> Append(segs, [name |-> seg_name(start, end), start |-> start,
                                   end |-> end, color |-> color,
                                   linestyle |-> linestyle])]

\* GeometryAnalyzer.add_segment: [ok, segments].
add_segment(pts, segs, start, end, color, linestyle) ==
  IF start \notin DOMAIN pts \/ end \notin DOMAIN pts
    THEN [ok |-> FALSE, segments |-> segs]
  ELSE IF seg_name(start, end) \in SegNames(segs)
    THEN [ok |-> FALSE, segments |-> segs]
  ELSE [ok |-> TRUE,
        segments |-> Append(segs, [name |-> seg_name(start, end), start |-> start,
                                   end |-> end, color |-> color,
                                   linestyle |-> linestyle])]

\* ------------------------------------------------ kernel: vectors
\* get_vector returns None for an unknown point.
None == <<>>

get_vector(pts, start_point, end_point) ==
  IF start_point \notin DOMAIN pts \/ end_point \notin DOMAIN pts THEN None
  ELSE LET s == pts[start_point]
           e == pts[end_point]
       IN  <<e[1] - s[1], e[2] - s[2], e[3] - s[3]>>

vector_add(v1, v2) == <<v1[1] + v2[1], v1[2] + v2[2], v1[3] + v2[3]>>
vector_subtract(v1, v2) == <<v1[1] - v2[1], v1[2] - v2[2], v1[3] - v2[3]>>
vector_dot(v1, v2) == v1[1] * v2[1] + v1[2] * v2[2] + v1[3] * v2[3]
vector_cross(v1, v2) ==
  <<v1[2] * v2[3] - v1[3] * v2[2],
    v1[3] * v2[1] - v1[1] * v2[3],
    v1[1] * v2[2] - v1[2] * v2[1]>>
\* x * x in float64: the square of a float below 1.5e-162 underflows to 0.0.
Sq(x) == IF x = FTiny THEN 0 ELSE x * x

\* np.linalg.norm of a 1-D array: sqrt(x.dot(x)), with no scaling.
vector_magnitude(v) == Sqrt(Sq(v[1]) + Sq(v[2]) + Sq(v[3]))

\* np.allclose(c, [0, 0, 0]): every |c_i| <= atol + rtol * |0|.
allclose_zero(c) == \A k \in 1..3 : Abs(c[k]) <= CrossAtol

\* ---------------------------------------------- kernel: relations
\* Every index pair (i, j) with i # j: an inner loop that starts at 0.
IndexPairsBothOrders(n) ==
  SelectSeq([k \in 1..(n * n) |-> <<((k - 1) \div n) + 1, ((k - 1) % n) + 1>>],
            LAMBDA p : p[1] # p[2])

\* The index pairs (i, j), i < j, from the last pair back to the first.
IndexPairsBackwards(n) ==
  LET fwd == SelectSeq([k \in 1..(n * n) |-> <<((k - 1) \div n) + 1, ((k - 1) % n) + 1>>],
                       LAMBDA p : p[1] < p[2])
  IN  [k \in 1..Len(fwd) |-> fwd[Len(fwd) + 1 - k]]

\* The index pairs (i, j), i < j, in the order of the two nested loops.
IndexPairs(n) ==
  SelectSeq([k \in 1..(n * n) |-> <<((k - 1) \div n) + 1, ((k - 1) % n) + 1>>],
            LAMBDA p : p[1] < p[2])

SegVector(pts, s) == get_vector(pts, s.start, s.end)

\* A perpendicularity test that leaves vectors without direction out.
is_perpendicular_directed(v1, v2) ==
  /\ v1 # <<0, 0, 0>>
  /\ v2 # <<0, 0, 0>>
  /\ Abs(vector_dot(v1, v2)) < DotTol

is_perpendicular(v1, v2) == Abs(vector_dot(v1, v2)) < DotTol
is_parallel(v1, v2) == allclose_zero(vector_cross(v1, v2))
has_ratio(len1, len2) == len2 # 0
length_ratio(len1, len2) == RoundDiv(100 * len1, len2)
is_length_equal(len1, len2) == Abs(len1 - len2) < LenTol
has_length_diff(len1, len2) == len1 # len2
length_diff(len1, len2) == RoundDiv(Abs(len1 - len2), Hundredth)

SeqMap(s, F(_)) == [k \in 1..Len(s) |-> F(s[k])]

\* GeometryAnalyzer.analyze_relations.  A pair with a vector that is None
\* makes np.dot raise TypeError, which nothing in the method catches.
\* Ratios and differences are in hundredths (two decimal places).
analyze_relations(pts, segs) ==
  LET pairs == IndexPairs(Len(segs))
      V(i) == SegVector(pts, segs[i])
      L(i) == vector_magnitude(V(i))
      N(i) == segs[i].name
      Two(p) == <<N(p[1]), N(p[2])>>
  IN  IF \E k \in 1..Len(pairs) : V(pairs[k][1]) = None \/ V(pairs[k][2]) = None
        THEN [res |-> "exception", perpendicular |-> <<>>, parallel |-> <<>>,
              length_ratio |-> <<>>, length_equal |-> <<>>, length_diff |-> <<>>]
        ELSE [res |-> "ok",
              perpendicular |->
                SeqMap(SelectSeq(pairs, LAMBDA p : is_perpendicular(V(p[1]), V(p[2]))), Two),
              parallel |->
                SeqMap(SelectSeq(pairs, LAMBDA p : is_parallel(V(p[1]), V(p[2]))), Two),
              length_ratio |->
                SeqMap(SelectSeq(pairs, LAMBDA p : has_ratio(L(p[1]), L(p[2]))),
                       LAMBDA p : <<N(p[1]), N(p[2]), length_ratio(L(p[1]), L(p[2]))>>),
              length_equal |->
                SeqMap(SelectSeq(pairs, LAMBDA p : is_length_equal(L(p[1]), L(p[2]))), Two),
              length_diff |->
                SeqMap(SelectSeq(pairs, LAMBDA p : has_length_diff(L(p[1]), L(p[2]))),
                       LAMBDA p : <<N(p[1]), N(p[2]), length_diff(L(p[1]), L(p[2]))>>)]

\* ------------------------------------------- kernel: constructions
\* A construction's outcome: "ok" (returns True), "fail" (returns False) or
\* "exception" (a KeyError on a segment endpoint that is not in the store).
Outcome(res, pts, segs) == [res |-> res, points |-> pts, segments |-> segs]

Dangling(pts, seg) == seg.start \notin DOMAIN pts \/ seg.end \notin DOMAIN pts

\* What create_perpendicular and create_parallel do after the direction
\* (ddx, ddy) is known: both add_point and add_segment may fail silently.
AddLine(pts, segs, point_name, end_point_name, ddx, ddy, color) ==
  LET p0 == pts[point_name]
      pts2 == add_point(pts, end_point_name,
                        Num(p0[1] + ddx), Num(p0[2] + ddy), Num(p0[3])).points
      segs2 == add_segment(pts2, segs, point_name, end_point_name,
                           color, "dashed").segments
  IN  Outcome("ok", pts2, segs2)

\* A create_perpendicular that turns the direction the other way round.
create_perpendicular_clockwise(pts, segs, point_name, base_segment_name, now) ==
  IF point_name \notin DOMAIN pts \/ base_segment_name \notin SegNames(segs)
    THEN Outcome("fail", pts, segs)
  ELSE LET base == SegByName(segs, base_segment_name)
       IN  IF Dangling(pts, base) THEN Outcome("exception", pts, segs)
           ELSE LET dx == pts[base.end][1] - pts[base.start][1]
                    dy == pts[base.end][2] - pts[base.start][2]
                IN  AddLine(pts, segs, point_name,
                            <<"perp", Us, "end", Us, Stamp(now)>>, dy, -dx, "#FF00FF")

create_perpendicular(pts, segs, point_name, base_segment_name, now) ==
  IF point_name \notin DOMAIN pts \/ base_segment_name \notin SegNames(segs)
    THEN Outcome("fail", pts, segs)
  ELSE LET base == SegByName(segs, base_segment_name)
       IN  IF Dangling(pts, base) THEN Outcome("exception", pts, segs)
           ELSE LET dx == pts[base.end][1] - pts[base.start][1]
                    dy == pts[base.end][2] - pts[base.start][2]
                IN  AddLine(pts, segs, point_name,
                            <<"perp", Us, "end", Us, Stamp(now)>>, -dy, dx, "#FF00FF")

\* A create_parallel that mirrors the direction at the x axis.
create_parallel_mirrored(pts, segs, point_name, base_segment_name, now) ==
  IF point_name \notin DOMAIN pts \/ base_segment_name \notin SegNames(segs)
    THEN Outcome("fail", pts, segs)
  ELSE LET base == SegByName(segs, base_segment_name)
       IN  IF Dangling(pts, base) THEN Outcome("exception", pts, segs)
           ELSE LET dx == pts[base.end][1] - pts[base.start][1]
                    dy == pts[base.end][2] - pts[base.start][2]
                IN  AddLine(pts, segs, point_name,
                            <<"parallel", Us, "end", Us, Stamp(now)>>, dx, -dy, "#00AAFF")

create_parallel(pts, segs, point_name, base_segment_name, now) ==
  IF point_name \notin DOMAIN pts \/ base_segment_name \notin SegNames(segs)
    THEN Outcome("fail", pts, segs)
  ELSE LET base == SegByName(segs, base_segment_name)
       IN  IF Dangling(pts, base) THEN Outcome("exception", pts, segs)
           ELSE LET dx == pts[base.end][1] - pts[base.start][1]
                    dy == pts[base.end][2] - pts[base.start][2]
                IN  AddLine(pts, segs, point_name,
                            <<"parallel", Us, "end", Us, Stamp(now)>>, dx, dy, "#00AAFF")

\* (a + b) / 2 on floats; exact in whole units when a + b is even.
Half(n) == n \div 2

\* A create_midpoint that averages x and y and keeps the z of the start.
create_midpoint_in_plane(pts, segs, segment_name, now) ==
  IF segment_name \notin SegNames(segs) THEN Outcome("fail", pts, segs)
  ELSE LET seg == SegByName(segs, segment_name)
       IN  IF Dangling(pts, seg) THEN Outcome("exception", pts, segs)
           ELSE LET a == pts[seg.start]
                    b == pts[seg.end]
                    mid_point_name == <<"mid", Us>> \o segment_name \o <<Us, Stamp(now)>>
                IN  Outcome("ok",
                            add_point(pts, mid_point_name, Num(Half(a[1] + b[1])),
                                      Num(Half(a[2] + b[2])), Num(a[3])).points,
                            segs)

create_midpoint(pts, segs, segment_name, now) ==
  IF segment_name \notin SegNames(segs) THEN Outcome("fail", pts, segs)
  ELSE LET seg == SegByName(segs, segment_name)
       IN  IF Dangling(pts, seg) THEN Outcome("exception", pts, segs)
           ELSE LET a == pts[seg.start]
                    b == pts[seg.end]
                    mid_point_name == <<"mid", Us>> \o segment_name \o <<Us, Stamp(now)>>
                IN  Outcome("ok",
                            add_point(pts, mid_point_name, Num(Half(a[1] + b[1])),
                                      Num(Half(a[2] + b[2])), Num(Half(a[3] + b[3]))).points,
                            segs)

\* A create_circle_or_sphere that looks only for the center: a radius segment
\* that is not stored gives a circle of radius 0.
create_circle_unchecked_segment(pts, segs, circles, center_point, radius_segment, now) ==
  IF center_point \notin DOMAIN pts THEN [res |-> "fail", circles |-> circles]
  ELSE [res |-> "ok",
        circles |-> Put(circles, <<"circle", Us, Stamp(now)>>,
                        [center |-> center_point, radius |-> 0])]

\* create_circle_or_sphere: [res, circles].
create_circle_or_sphere(pts, segs, circles, center_point, radius_segment, now) ==
  IF center_point \notin DOMAIN pts \/ radius_segment \notin SegNames(segs)
    THEN [res |-> "fail", circles |-> circles]
  ELSE LET seg == SegByName(segs, radius_segment)
       IN  IF Dangling(pts, seg) THEN [res |-> "exception", circles |-> circles]
           ELSE [res |-> "ok",
                 circles |-> Put(circles, <<"circle", Us, Stamp(now)>>,
                                 [center |-> center_point,
                                  radius |-> vector_magnitude(SegVector(pts, seg))])]

\* ----------------------------------------- kernel: calculator state
IsTemp(name) == startswith(name, TempPrefix)
IsResult(name) == startswith(name, ResultPrefix)

\* A clear_temp_points that tests startswith('temp'), without the underscore.
clear_points_named_temp(pts, vecs) ==
  [points |-> Remove(pts, {n \in DOMAIN pts : startswith(n, <<"temp">>)}),
   vectors |-> SelectSeq(vecs, LAMBDA v : ~(startswith(v.start, <<"temp">>)
                                            \/ startswith(v.end, <<"temp">>)))]

\* GeometryAnalyzer.clear_temp_points: [points, vectors].
clear_temp_points(pts, vecs) ==
  [points |-> Remove(pts, {n \in DOMAIN pts : IsTemp(n)}),
   vectors |-> SelectSeq(vecs, LAMBDA v : ~(IsTemp(v.start) \/ IsTemp(v.end)))]

\* GeometryAnalyzer.clear_all_calculations: [points, vectors].
clear_all_calculations(pts, vecs) ==
  [points |-> Remove(pts, {n \in DOMAIN pts : IsTemp(n) \/ IsResult(n)}),
   vectors |-> <<>>]

\* vector_angle returns None when either magnitude is 0.
angle_is_none(v1, v2) == vector_magnitude(v1) = 0 \/ vector_magnitude(v2) = 0

\* A product of two lengths (units^2) or a length times 0.8, as a coordinate
\* in whole units, rounded to the nearest.
Quant(n, d) == IF n < 0 THEN -RoundDiv(-n, d) ELSE RoundDiv(n, d)
FromSquare(n) == Quant(n, 2000000)
Times08(n) == Quant(4 * n, 5)

\* What vector_angle returns: None, or a float.  The float is kept as the
\* clipped cosine it is the arccos of, in thousandths (FNaN: nan).
Undefined == [defined |-> FALSE, cos |-> 0]
Degrees(c) == [defined |-> TRUE, cos |-> c]
clip(c) == IF c < -1000 THEN -1000 ELSE IF c > 1000 THEN 1000 ELSE c

\* A vector_angle without the test for a zero magnitude: 0.0 / 0.0 is nan,
\* and np.clip and np.arccos hand nan on.
vector_angle_unguarded(v1, v2) ==
  LET m == vector_magnitude(v1) * vector_magnitude(v2)
  IN  IF m = 0 THEN Degrees(FNaN)
      ELSE Degrees(clip(Quant(1000 * vector_dot(v1, v2), m)))

\* GeometryAnalyzer.vector_angle.
vector_angle(v1, v2) ==
  IF angle_is_none(v1, v2) THEN Undefined
  ELSE Degrees(clip(Quant(1000 * vector_dot(v1, v2),
                          vector_magnitude(v1) * vector_magnitude(v2))))

CalcTypes == {"add", "sub", "dot", "cross", "mag1", "mag2", "angle"}

\* The point a calculation of type t materialises: <<name piece, x, y, z>>.
ResultPoint(t, vec1, vec2) ==
  CASE t = "add" -> LET r == vector_add(vec1, vec2) IN <<"add", r[1], r[2], r[3]>>
    [] t = "sub" -> LET r == vector_subtract(vec1, vec2) IN <<"sub", r[1], r[2], r[3]>>
    [] t = "dot" -> <<"dot", Times08(FromSquare(vector_dot(vec1, vec2))), 0, 0>>
    [] t = "cross" -> LET c == vector_cross(vec1, vec2)
                      IN  <<"cross", FromSquare(c[1]), FromSquare(c[2]), FromSquare(c[3])>>
    [] t = "mag1" -> <<"mag1", 0, Times08(vector_magnitude(vec1)), 0>>
    [] t = "mag2" -> <<"mag2", 0, 0, Times08(vector_magnitude(vec2))>>

Vec(start, end, label) == [start |-> start, end |-> end, label |-> label]

TempName(which, now) == <<"temp", Us, which, Us, Stamp(now)>>

\* Ensure point O is at the origin: added when absent, overwritten otherwise.
EnsureOrigin(pts) ==
  IF OName \notin DOMAIN pts THEN add_point(pts, OName, Num(0), Num(0), Num(0)).points
  ELSE [pts EXCEPT ![OName] = <<0, 0, 0>>]

\* GeometryGUI.calculate_vector on the selection sel = <<start1, end1, start2,
\* end2>> and the literal input lit = [ok, v1, v2] (ok: both texts are three
\* comma-separated numbers): [res, points, vectors, result].
calculate_vector(pts, vecs, sel, lit, t, now) ==
  LET selected == /\ \A k \in 1..4 : sel[k] # EmptyName
                  /\ get_vector(pts, sel[1], sel[2]) # None
                  /\ get_vector(pts, sel[3], sel[4]) # None
  IN  IF ~selected /\ ~lit.ok
        THEN [res |-> "fail", points |-> pts, vectors |-> vecs, result |-> EmptyName,
              angle |-> NoOut]
      ELSE
        LET vec1 == IF selected THEN get_vector(pts, sel[1], sel[2]) ELSE lit.v1
            vec2 == IF selected THEN get_vector(pts, sel[3], sel[4]) ELSE lit.v2
            names == IF selected THEN sel
                     ELSE <<TempName("start1", now), TempName("end1", now),
                            TempName("start2", now), TempName("end2", now)>>
            c1 == clear_temp_points(pts, vecs)
            p1 == add_point(c1.points, names[1], Num(0), Num(0), Num(0)).points
            p2 == add_point(p1, names[2], Num(vec1[1]), Num(vec1[2]), Num(vec1[3])).points
            p3 == add_point(p2, names[3], Num(0), Num(0), Num(0)).points
            p4 == add_point(p3, names[4], Num(vec2[1]), Num(vec2[2]), Num(vec2[3])).points
            c2 == IF selected THEN clear_temp_points(pts, vecs)
                  ELSE clear_temp_points(p4, c1.vectors)
            shown == <<Vec(names[1], names[2], "v1"), Vec(names[3], names[4], "v2")>>
            p5 == EnsureOrigin(c2.points)
        IN  IF t = "angle"
              THEN [res |-> "ok", points |-> p5, vectors |-> shown, result |-> EmptyName,
                    angle |-> vector_angle(vec1, vec2)]
              ELSE LET r == ResultPoint(t, vec1, vec2)
                       result_point == <<"result", Us, r[1], Us, Stamp(now)>>
                   IN  [res |-> "ok",
                        points |-> add_point(p5, result_point,
                                             Num(r[2]), Num(r[3]), Num(r[4])).points,
                        vectors |-> Append(shown, Vec(OName, result_point, r[1])),
                        result |-> result_point,
                        angle |-> NoOut]

\* ------------------------------------------------------------- inputs
\* What the user types into the add-point form: a name and three numerals.
PointInputs ==
  {<<<<"O">>, <<0, 0, 0>>>>,
   <<<<"A">>, <<12000, 0, 0>>>>,
   <<<<"B">>, <<0, 12001, 0>>>>}
UserNames == {in[1] : in \in PointInputs}

\* The two literal vector texts of the calculator: two well-formed triples,
\* or text that is not three comma-separated numbers.
LitInputs == {[ok |-> TRUE, v1 |-> <<12000, 0, 0>>, v2 |-> <<0, 500, 0>>],
              [ok |-> FALSE, v1 |-> None, v2 |-> None]}

\* The name calculate_vector gives to the sum it computes at time now.
ResultName(now) == <<"result", Us, "add", Us, Stamp(now)>>

\* A combobox variable holds a name that is in the store, or one that was.
PointArgs == DOMAIN points \cup UserNames
SegArgs == SegNames(segments) \cup {seg_name(<<"O">>, <<"A">>)}

\* The endpoint pairs chosen in the segment form.
SegInputs == {<<<<"O">>, <<"A">>>>, <<<<"A">>, <<"B">>>>, <<<<"O">>, ResultName(1)>>}

\* The four vector comboboxes of the calculator: nothing selected, or OA and
\* OO (two stored points leave room for the result point).
SelInputs == {<<EmptyName, EmptyName, EmptyName, EmptyName>>,
              <<<<"O">>, <<"A">>, <<"O">>, <<"O">>>>}

InRange(pts) == \A n \in DOMAIN pts : \A k \in 1..3 : Abs(pts[n][k]) <= MaxCoord
Fits(pts, segs) ==
  /\ Cardinality(DOMAIN pts) <= MaxPoints
  /\ Len(segs) <= MaxSegments
  /\ InRange(pts)

\* ------------------------------------------------------------ actions
Init ==
  /\ points = << >>
  /\ segments = << >>
  /\ vectors_to_display = << >>
  /\ circles_and_spheres = << >>
  /\ clock = 1
  /\ last = Done("init", "ok", EmptyName, EmptyName)

Tick ==
  /\ clock < MaxClock
  /\ clock' = clock + 1
  /\ UNCHANGED <<points, segments, vectors_to_display, circles_and_spheres, last>>

\* GeometryGUI.add_point with a name and three numerals.
AddPoint(name, c) ==
  /\ LET r == add_point(points, name, Num(c[1]), Num(c[2]), Num(c[3]))
     IN  /\ Fits(r.points, segments)
         /\ points' = r.points
         /\ last' = Done("add_point", IF r.ok THEN "ok" ELSE "fail", name, EmptyName)
  /\ UNCHANGED <<segments, vectors_to_display, circles_and_spheres, clock>>

\* GeometryGUI.add_segment, create_segment_from_selection, on a map that is
\* to hold at most bound segments.
AddSegmentWithin(bound, start, end) ==
  /\ LET r == add_segment(points, segments, start, end, "#0000FF", "solid")
     IN  /\ Len(r.segments) <= bound
         /\ segments' = r.segments
         /\ last' = Done("add_segment", IF r.ok THEN "ok" ELSE "fail", start, end)
  /\ UNCHANGED <<points, vectors_to_display, circles_and_spheres, clock>>

AddSegment(start, end) == AddSegmentWithin(MaxSegments, start, end)

\* A cascade that looks only at the start of each segment.
dependent_segments_by_start(segs, point_name) ==
  SeqMap(SelectSeq(segs, LAMBDA s : s.start = point_name), LAMBDA s : s.name)

\* The names of the segments that start or end at point_name, in the order
\* delete_point lists them in its confirmation dialog.
dependent_segments(segs, point_name) ==
  SeqMap(SelectSeq(segs, LAMBDA s : s.start = point_name \/ s.end = point_name),
         LAMBDA s : s.name)

\* GeometryGUI.delete_point: [res, points, segments].  confirm is the answer
\* to the dialog that is shown when segments depend on the point.
delete_point(pts, segs, point_name, confirm) ==
  LET dep == dependent_segments(segs, point_name)
      gone == {dep[i] : i \in 1..Len(dep)}
  IN  IF dep # << >> /\ ~confirm THEN Outcome("cancel", pts, segs)
      ELSE IF point_name \in DOMAIN pts
        THEN Outcome("ok", Remove(pts, {point_name}), DropSegs(segs, gone))
        ELSE Outcome("fail", pts, DropSegs(segs, gone))

DeletePoint(point_name, confirm) ==
  /\ LET r == delete_point(points, segments, point_name, confirm)
     IN  /\ points' = r.points
         /\ segments' = r.segments
         /\ last' = Done("delete_point", r.res, point_name,
                         dependent_segments(segments, point_name))
  /\ UNCHANGED <<vectors_to_display, circles_and_spheres, clock>>

\* A delete_segment that takes every segment leaving the same start point.
delete_segments_from_start(segs, seg, confirm) ==
  IF ~confirm THEN [res |-> "cancel", segments |-> segs]
  ELSE IF seg \in SegNames(segs)
         THEN [res |-> "ok",
               segments |-> SelectSeq(segs, LAMBDA s : s.start # SegByName(segs, seg).start)]
  ELSE [res |-> "fail", segments |-> segs]

\* GeometryGUI.delete_segment: [res, segments].
delete_segment(segs, seg, confirm) ==
  IF ~confirm THEN [res |-> "cancel", segments |-> segs]
  ELSE IF seg \in SegNames(segs) THEN [res |-> "ok", segments |-> DropSegs(segs, {seg})]
  ELSE [res |-> "fail", segments |-> segs]

DeleteSegment(seg, confirm) ==
  /\ LET r == delete_segment(segments, seg, confirm)
     IN  /\ segments' = r.segments
         /\ last' = Done("delete_segment", r.res, seg, EmptyName)
  /\ UNCHANGED <<points, vectors_to_display, circles_and_spheres, clock>>

\* What analyze_geometry has in hand after the call: the returned relation
\* lists, or nothing when it stops at the warning for an empty segment map.
Analysed(pts, segs) ==
  IF segs = << >> THEN Done("analyze", "fail", EmptyName, EmptyName)
  ELSE LET r == analyze_relations(pts, segs)
       IN  DoneWith("analyze", r.res, EmptyName, EmptyName, r)

\* An analysis that takes each segment off the map as it reads it.
AnalyzeConsuming ==
  /\ last' = Analysed(points, segments)
  /\ segments' = IF segments = << >> THEN segments ELSE Tail(segments)
  /\ UNCHANGED <<points, vectors_to_display, circles_and_spheres, clock>>

\* GeometryGUI.analyze_geometry.
Analyze ==
  /\ last' = Analysed(points, segments)
  /\ UNCHANGED <<points, segments, vectors_to_display, circles_and_spheres, clock>>

\* GeometryGUI.draw_perpendicular.
DrawPerpendicular(point, segment) ==
  /\ LET r == create_perpendicular(points, segments, point, segment, clock)
     IN  /\ Fits(r.points, r.segments)
         /\ points' = r.points
         /\ segments' = r.segments
         /\ last' = Done("create_perpendicular", r.res, point, segment)
  /\ UNCHANGED <<vectors_to_display, circles_and_spheres, clock>>

\* GeometryGUI.draw_parallel.
DrawParallel(point, segment) ==
  /\ LET r == create_parallel(points, segments, point, segment, clock)
     IN  /\ Fits(r.points, r.segments)
         /\ points' = r.points
         /\ segments' = r.segments
         /\ last' = Done("create_parallel", r.res, point, segment)
  /\ UNCHANGED <<vectors_to_display, circles_and_spheres, clock>>

\* GeometryGUI.draw_midpoint.
DrawMidpoint(segment) ==
  /\ LET r == create_midpoint(points, segments, segment, clock)
     IN  /\ Fits(r.points, segments)
         /\ points' = r.points
         /\ last' = Done("create_midpoint", r.res, EmptyName, segment)
  /\ UNCHANGED <<segments, vectors_to_display, circles_and_spheres, clock>>

\* GeometryGUI.draw_circle.
DrawCircle(center, segment) ==
  /\ LET r == create_circle_or_sphere(points, segments, circles_and_spheres,
                                      center, segment, clock)
     IN  /\ circles_and_spheres' = r.circles
         /\ last' = Done("create_circle_or_sphere", r.res, center, segment)
  /\ UNCHANGED <<points, segments, vectors_to_display, clock>>

\* GeometryGUI.calculate_vector.
CalculateVector(sel, lit, t) ==
  /\ LET r == calculate_vector(points, vectors_to_display, sel, lit, t, clock)
     IN  /\ Fits(r.points, segments)
         /\ points' = r.points
         /\ vectors_to_display' = r.vectors
         /\ last' = DoneWith("calculate_vector", r.res, <<t>>, r.result, r.angle)
  /\ UNCHANGED <<segments, circles_and_spheres, clock>>

\* GeometryGUI.delete_selected_calculation on the name read from the
\* combobox: [res, points, vectors].
delete_selected_calculation(pts, vecs, point_name) ==
  IF point_name \in DOMAIN pts
    THEN [res |-> "ok", points |-> Remove(pts, {point_name}),
          vectors |-> SelectSeq(vecs, LAMBDA v :
                                  ~(v.start = point_name \/ v.end = point_name))]
    ELSE [res |-> "fail", points |-> pts, vectors |-> vecs]

DeleteSelectedCalculation(point_name) ==
  /\ LET r == delete_selected_calculation(points, vectors_to_display, point_name)
     IN  /\ points' = r.points
         /\ vectors_to_display' = r.vectors
         /\ last' = Done("delete_selected_calculation", r.res, point_name, EmptyName)
  /\ UNCHANGED <<segments, circles_and_spheres, clock>>

\* GeometryGUI.clear_all_calculations.
ClearAllCalculations ==
  /\ IF {n \in DOMAIN points : IsResult(n)} = {}
       THEN /\ UNCHANGED <<points, vectors_to_display>>
            /\ last' = Done("clear_all_calculations", "fail", EmptyName, EmptyName)
       ELSE LET r == clear_all_calculations(points, vectors_to_display)
            IN  /\ points' = r.points
                /\ vectors_to_display' = r.vectors
                /\ last' = Done("clear_all_calculations", "ok", EmptyName, EmptyName)
  /\ UNCHANGED <<segments, circles_and_spheres, clock>>

\* GeometryGUI.clear_all_data, once the user has confirmed.
ClearAllData ==
  /\ points' = << >>
  /\ segments' = << >>
  /\ circles_and_spheres' = << >>
  /\ vectors_to_display' = << >>
  /\ last' = Done("clear_all_data", "ok", EmptyName, EmptyName)
  /\ UNCHANGED clock

\* ------------------------------------------------ the store and its users
DoAddPoint == \E in \in PointInputs : AddPoint(in[1], in[2])
DoAddSegment == \E in \in SegInputs : AddSegment(in[1], in[2])
DoDeletePoint == \E p \in PointArgs, confirm \in BOOLEAN : DeletePoint(p, confirm)
DoDeleteSegment == \E s \in SegArgs, confirm \in BOOLEAN : DeleteSegment(s, confirm)
DoCalculate == \E sel \in SelInputs, lit \in LitInputs : CalculateVector(sel, lit, "add")
DoDeleteCalculation ==
  \E p \in {n \in DOMAIN points : IsResult(n)} \cup {ResultName(1)} :
     DeleteSelectedCalculation(p)

Next ==
  \/ DoAddPoint
  \/ DoAddSegment
  \/ DoDeletePoint
  \/ DoDeleteSegment
  \/ DoCalculate
  \/ DoDeleteCalculation
  \/ ClearAllCalculations
  \/ ClearAllData

Spec == Init /\ [][Next]_vars


\* --------------------------------------------------- the constructions
\* The points chosen in the construction forms, and the one literal input of
\* the calculator that is used here.
ConstructPoints == {<<"O">>, <<"A">>}
ConstructLit == [ok |-> TRUE, v1 |-> <<12000, 0, 0>>, v2 |-> <<0, 500, 0>>]

DoAddBasePoint == \E in \in {x \in PointInputs : x[1] \in ConstructPoints} : AddPoint(in[1], in[2])
DoCalculateLiteral ==
  CalculateVector(<<EmptyName, EmptyName, EmptyName, EmptyName>>, ConstructLit, "add")
DoPerpendicular == \E p \in ConstructPoints, s \in SegArgs : DrawPerpendicular(p, s)
DoParallel == \E p \in ConstructPoints, s \in SegArgs : DrawParallel(p, s)
DoMidpoint == \E s \in SegArgs : DrawMidpoint(s)
DoCircle == \E p \in ConstructPoints, s \in SegArgs : DrawCircle(p, s)

NextConstruct ==
  \/ Tick
  \/ DoAddBasePoint
  \/ DoAddSegment
  \/ DoCalculateLiteral
  \/ DoDeleteCalculation
  \/ Analyze
  \/ DoPerpendicular
  \/ DoParallel
  \/ DoMidpoint
  \/ DoCircle

SpecConstruct == Init /\ [][NextConstruct]_vars


\* ------------------------------------------------------- the analysis
\* The endpoint pairs chosen in the segment form before an analysis.
RelSegInputs == {<<<<"O">>, <<"A">>>>, <<<<"O">>, <<"B">>>>,
                 <<<<"A">>, <<"B">>>>, <<<<"O">>, <<"O">>>>}

\* The analysis compares pairs of segments: its map holds up to three.
MaxRelSegments == 3

DoAddRelSegment == \E in \in RelSegInputs : AddSegmentWithin(MaxRelSegments, in[1], in[2])

NextRelations ==
  \/ DoAddPoint
  \/ DoAddRelSegment
  \/ DoDeleteSegment
  \/ Analyze

SpecRelations == Init /\ [][NextRelations]_vars


\* ------------------------------------------------- coordinates as typed
\* One coordinate field holds the expression, the other two hold 0.
Triples(E) ==
  UNION {{<<e, Num(0), Num(0)>>, <<Num(0), e, Num(0)>>, <<Num(0), Num(0), e>>} : e \in E}

ExprInputs == {Num(0), Num(12000), Txt("oo"), Txt("-oo"), Txt("nan"),
               Txt("zoo"), Txt("free"), Txt("bad")}

\* GeometryGUI.add_point of main.py on a non-empty name and non-empty fields:
\* the three fields are resolved to floats, and GeometryAnalyzer.add_point
\* resolves the floats again: [ok, points].
gui_add_point(pts, name, x, y, z) ==
  LET xr == Resolve(x)
      yr == Resolve(y)
      zr == Resolve(z)
  IN  IF xr.ok /\ yr.ok /\ zr.ok
        THEN add_point(pts, name, Num(xr.val), Num(yr.val), Num(zr.val))
        ELSE [ok |-> FALSE, points |-> pts]

AddPointExpr(name, c) ==
  /\ LET r == gui_add_point(points, name, c[1], c[2], c[3])
     IN  /\ Cardinality(DOMAIN r.points) <= MaxPoints
         /\ points' = r.points
         /\ last' = Done("add_point", IF r.ok THEN "ok" ELSE "fail", name, c)
  /\ UNCHANGED <<segments, vectors_to_display, circles_and_spheres, clock>>

DoAddPointExpr == \E name \in ConstructPoints, c \in Triples(ExprInputs) : AddPointExpr(name, c)

NextCoord ==
  \/ DoAddPointExpr
  \/ DoDeletePoint

SpecCoord == Init /\ [][NextCoord]_vars

\* ------------------------------------------ the symbolic store (2Dcalculate)
\* In 2Dcalculate.py a point keeps its three coordinates as expressions.
SymInputs == {Num(0), Num(12000), Txt("free"), Txt("bad")}

\* sp.sympify raises on malformed text and on nothing else.
sympify_ok(e) == e.kind # "bad"

\* GeometryAnalyzer.add_point of 2Dcalculate.py: [ok, points].
add_point_2d(pts, name, x, y, z) ==
  IF name \in DOMAIN pts THEN [ok |-> FALSE, points |-> pts]
  ELSE [ok |-> TRUE, points |-> Put(pts, name, <<x, y, z>>)]

\* GeometryApp.add_point of 2Dcalculate.py: [ok, points].
app_add_point(pts, name, x, y, z) ==
  IF sympify_ok(x) /\ sympify_ok(y) /\ sympify_ok(z)
    THEN add_point_2d(pts, name, x, y, z)
    ELSE [ok |-> FALSE, points |-> pts]

SymAddPoint(name, c) ==
  /\ LET r == app_add_point(points, name, c[1], c[2], c[3])
     IN  /\ Cardinality(DOMAIN r.points) <= MaxPoints
         /\ points' = r.points
         /\ last' = Done("add_point", IF r.ok THEN "ok" ELSE "fail", name, c)
  /\ UNCHANGED <<segments, vectors_to_display, circles_and_spheres, clock>>

\* Segment.name of 2Dcalculate.py: the two point names, nothing between.
segment_name_2d(start, end) == start \o end

\* GeometryAnalyzer.add_segment of 2Dcalculate.py: [ok, segments].
add_segment_2d(pts, segs, start_name, end_name) ==
  IF start_name \notin DOMAIN pts \/ end_name \notin DOMAIN pts
    THEN [ok |-> FALSE, segments |-> segs]
  ELSE IF segment_name_2d(start_name, end_name) \in SegNames(segs)
    THEN [ok |-> FALSE, segments |-> segs]
  ELSE [ok |-> TRUE,
        segments |-> Append(segs, [name |-> segment_name_2d(start_name, end_name),
                                   start |-> start_name, end |-> end_name])]

SymAddSegment(start, end) ==
  /\ LET r == add_segment_2d(points, segments, start, end)
     IN  /\ Len(r.segments) <= MaxSegments
         /\ segments' = r.segments
         /\ last' = Done("add_segment", IF r.ok THEN "ok" ELSE "fail", start, end)
  /\ UNCHANGED <<points, vectors_to_display, circles_and_spheres, clock>>

DoSymAddPoint == \E name \in ConstructPoints, c \in Triples(SymInputs) : SymAddPoint(name, c)
DoSymAddSegment == \E start \in ConstructPoints, end \in ConstructPoints : SymAddSegment(start, end)

NextSymbolic ==
  \/ DoSymAddPoint
  \/ DoSymAddSegment

SpecSymbolic == Init /\ [][NextSymbolic]_vars

\* ------------------------------------ the symbolic analyzer's relations
\* A coordinate that is a plain Python int, as the default points have it;
\* Num is a sympy number, as the form's sp.sympify makes it.
Plain(n) == [kind |-> "int", v |-> n]

\* Point.is_3d: z == 0 holds for both zeros, isinstance(z, sp.Number) for
\* the sympy one only.
is_3d(p) ==
  ~(/\ p[3].v = 0
    /\ p[3].kind = "num" /\ p[3].v = 0)

\* Segment.vector.
segment_vector(pts, seg) ==
  LET s == pts[seg.start]
      e == pts[seg.end]
  IN  <<e[1].v - s[1].v, e[2].v - s[2].v, e[3].v - s[3].v>>

\* Segment.length: sp.sqrt of the number returned here.  Two lengths are
\* equal, or zero, exactly when the numbers under their roots are.
segment_length_sq(pts, seg) ==
  LET v == segment_vector(pts, seg)
  IN  IF is_3d(pts[seg.start]) THEN v[1] * v[1] + v[2] * v[2] + v[3] * v[3]
      ELSE v[1] * v[1] + v[2] * v[2]

Uses3D(pts, seg1, seg2) == is_3d(pts[seg1.start]) \/ is_3d(pts[seg2.start])

sym_dot(pts, seg1, seg2) ==
  LET v1 == segment_vector(pts, seg1)
      v2 == segment_vector(pts, seg2)
  IN  IF Uses3D(pts, seg1, seg2) THEN v1[1] * v2[1] + v1[2] * v2[2] + v1[3] * v2[3]
      ELSE v1[1] * v2[1] + v1[2] * v2[2]

\* cross_x, cross_y and cross_z; the last alone for two flat starts.
sym_cross(pts, seg1, seg2) ==
  LET v1 == segment_vector(pts, seg1)
      v2 == segment_vector(pts, seg2)
  IN  IF Uses3D(pts, seg1, seg2)
        THEN <<v1[2] * v2[3] - v1[3] * v2[2],
               v1[3] * v2[1] - v1[1] * v2[3],
               v1[1] * v2[2] - v1[2] * v2[1]>>
        ELSE <<0, 0, v1[1] * v2[2] - v1[2] * v2[1]>>

\* sp.simplify(seg1_len / seg2_len): a sympy quotient never raises; a
\* non-zero length over zero is zoo and zero over zero is nan.
sym_ratio(l1, l2) ==
  [kind |-> IF l2 # 0 THEN "ratio" ELSE IF l1 # 0 THEN "zoo" ELSE "nan",
   num_sq |-> l1, den_sq |-> l2]

\* ratio != 0 and ratio != sp.oo: zoo and nan are neither.
sym_ratio_kept(r) == ~(r.kind = "ratio" /\ r.num_sq = 0) /\ r.kind # "oo"

\* GeometryAnalyzer.analyze_all_relations of 2Dcalculate.py.
analyze_all_relations(pts, segs) ==
  LET pairs == IndexPairs(Len(segs))
      L(i) == segment_length_sq(pts, segs[i])
      N(i) == segs[i].name
      Two(p) == <<N(p[1]), N(p[2])>>
  IN  [res |-> "ok",
       perpendicular |->
         SeqMap(SelectSeq(pairs, LAMBDA p : sym_dot(pts, segs[p[1]], segs[p[2]]) = 0), Two),
       parallel |->
         SeqMap(SelectSeq(pairs,
                  LAMBDA p : sym_cross(pts, segs[p[1]], segs[p[2]]) = <<0, 0, 0>>), Two),
       length_ratio |->
         SeqMap(SelectSeq(pairs, LAMBDA p : sym_ratio_kept(sym_ratio(L(p[1]), L(p[2])))),
                LAMBDA p : <<N(p[1]), N(p[2]), sym_ratio(L(p[1]), L(p[2]))>>),
       length_equal |->
         SeqMap(SelectSeq(pairs, LAMBDA p : L(p[1]) = L(p[2])), Two),
       length_difference |->
         SeqMap(SelectSeq(pairs, LAMBDA p : L(p[1]) # L(p[2])),
                LAMBDA p : <<N(p[1]), N(p[2]), <<L(p[1]), L(p[2])>>>>)]

\* The symbolic application's maps hold the four default points and three
\* default segments, and a few more of each.
MaxSymPoints == 6
MaxSymSegments == 5

Seg2D(start, end) == [name |-> segment_name_2d(start, end), start |-> start, end |-> end]

\* GeometryApp.initialize_default_points.
DefaultPoints ==
  (<<"A">> :> <<Plain(0), Plain(0), Plain(0)>>) @@
  (<<"B">> :> <<Plain(0), Plain(1), Plain(0)>>) @@
  (<<"C">> :> <<Plain(1), Plain(0), Plain(0)>>) @@
  (<<"D">> :> <<Plain(1), Plain(1), Plain(0)>>)
DefaultSegments ==
  <<Seg2D(<<"A">>, <<"B">>), Seg2D(<<"C">>, <<"D">>), Seg2D(<<"A">>, <<"D">>)>>

InitApp ==
  /\ points = DefaultPoints
  /\ segments = DefaultSegments
  /\ vectors_to_display = << >>
  /\ circles_and_spheres = << >>
  /\ clock = 1
  /\ last = Done("init", "ok", EmptyName, EmptyName)

\* What is typed into the form: a point in the plane and one above it.
FormInputs ==
  {<<<<"P">>, <<Num(3), Num(4), Num(0)>>>>,
   <<<<"Q">>, <<Num(3), Num(4), Num(5)>>>>}
FormSegInputs ==
  {<<<<"P">>, <<"Q">>>>, <<<<"Q">>, <<"P">>>>, <<<<"A">>, <<"Q">>>>,
   <<<<"A">>, <<"P">>>>, <<<<"P">>, <<"P">>>>}

FormAddPoint(name, c) ==
  /\ LET r == app_add_point(points, name, c[1], c[2], c[3])
     IN  /\ Cardinality(DOMAIN r.points) <= MaxSymPoints
         /\ points' = r.points
         /\ last' = Done("add_point", IF r.ok THEN "ok" ELSE "fail", name, EmptyName)
  /\ UNCHANGED <<segments, vectors_to_display, circles_and_spheres, clock>>

FormAddSegment(start, end) ==
  /\ LET r == add_segment_2d(points, segments, start, end)
     IN  /\ Len(r.segments) <= MaxSymSegments
         /\ segments' = r.segments
         /\ last' = Done("add_segment", IF r.ok THEN "ok" ELSE "fail", start, end)
  /\ UNCHANGED <<points, vectors_to_display, circles_and_spheres, clock>>

\* GeometryApp.analyze_relations.
FormAnalyze ==
  /\ last' = DoneWith("analyze_all_relations", "ok", EmptyName, EmptyName,
                      analyze_all_relations(points, segments))
  /\ UNCHANGED <<points, segments, vectors_to_display, circles_and_spheres, clock>>

DoFormAddPoint == \E in \in FormInputs : FormAddPoint(in[1], in[2])
DoFormAddSegment == \E in \in FormSegInputs : FormAddSegment(in[1], in[2])

NextApp ==
  \/ DoFormAddPoint
  \/ DoFormAddSegment
  \/ FormAnalyze

SpecApp == InitApp /\ [][NextApp]_vars


\* The fields are exactly three numbers.
WellFormed(text) == Len(text) = 3 /\ \A k \in 1..Len(text) : text[k].kind = "num"

\* ------------------------------------------------------- the calculator
\* A literal vector text after split(','): its fields, each a number or text
\* that float() refuses.
LitTexts ==
  {<<<<Num(12000), Num(0), Num(0)>>, <<Num(0), Num(500), Num(0)>>>>,
   <<<<Num(12000), Num(0)>>, <<Num(0), Num(500), Num(0)>>>>,
   <<<<Num(12000), Num(0), Num(0)>>, <<Num(0), Num(500), Num(0), Num(0)>>>>,
   <<<<Num(12000), Num(0), Num(0)>>, <<Num(0), Txt("bad"), Num(0)>>>>}

\* A parse that reads a field float() refuses as 0.
parse_literals_lenient(text1, text2) ==
  IF Len(text1) = 3 /\ Len(text2) = 3
    THEN [ok |-> TRUE, v1 |-> <<text1[1].v, text1[2].v, text1[3].v>>,
          v2 |-> <<text2[1].v, text2[2].v, text2[3].v>>]
    ELSE [ok |-> FALSE, v1 |-> None, v2 |-> None]

\* The literal branch of calculate_vector up to np.array: float() on every
\* field of both texts, then the test that each has three fields.
parse_literals(text1, text2) ==
  IF /\ \A k \in 1..Len(text1) : text1[k].kind = "num"
     /\ \A k \in 1..Len(text2) : text2[k].kind = "num"
     /\ Len(text1) = 3
     /\ Len(text2) = 3
    THEN [ok |-> TRUE, v1 |-> <<text1[1].v, text1[2].v, text1[3].v>>,
          v2 |-> <<text2[1].v, text2[2].v, text2[3].v>>]
    ELSE [ok |-> FALSE, v1 |-> None, v2 |-> None]

\* What the user has put into the calculator: the literal fields matter only
\* when the comboboxes name no vector, so the selection comes with one text.
CalcInputs ==
  {<<sel, txt>> \in SelInputs \X LitTexts :
      sel[1] = EmptyName \/ (WellFormed(txt[1]) /\ WellFormed(txt[2]))}

DoCalculateAny ==
  \E in \in CalcInputs, t \in CalcTypes :
     CalculateVector(in[1], parse_literals(in[2][1], in[2][2]), t)

NextCalc ==
  \/ Tick
  \/ DoAddBasePoint
  \/ DoCalculateAny
  \/ ClearAllCalculations

SpecCalc == Init /\ [][NextCalc]_vars

\* ------------------------------------------------------- the temporary points
\* Names a user can type that look like the calculator's: temp_x carries the
\* reserved prefix, temp does not.
TempLike == <<"temp", Us, "x">>
TempInputs ==
  {<<<<"O">>, <<0, 0, 0>>>>, <<TempLike, <<0, 500, 0>>>>, <<<<"temp">>, <<12000, 0, 0>>>>}
TempSegInputs == {<<<<"O">>, TempLike>>, <<<<"O">>, <<"temp">>>>}

\* A call of GeometryAnalyzer.clear_temp_points(): last.out holds
\* temp_point_names.
ClearTempPoints ==
  /\ LET r == clear_temp_points(points, vectors_to_display)
     IN  /\ points' = r.points
         /\ vectors_to_display' = r.vectors
         /\ last' = DoneWith("clear_temp_points", "ok", EmptyName, EmptyName,
                             [removed |-> DOMAIN points \ DOMAIN r.points])
  /\ UNCHANGED <<segments, circles_and_spheres, clock>>

DoAddTempPoint == \E in \in TempInputs : AddPoint(in[1], in[2])
DoAddTempSegment == \E in \in TempSegInputs : AddSegment(in[1], in[2])

NextTemp ==
  \/ DoAddTempPoint
  \/ DoAddTempSegment
  \/ DoCalculateLiteral
  \/ DoCircle
  \/ ClearTempPoints

SpecTemp == Init /\ [][NextTemp]_vars

\* ------------------------------------------------------------ the midpoint
\* Endpoints off the axes and at different heights; every coordinate is an
\* even number of units, so that the mean of two is a whole number of units.
MidInputs ==
  {<<<<"P">>, <<200, -300, 700>>>>,
   <<<<"Q">>, <<-13000, 4, 0>>>>,
   <<<<"R">>, <<13000, 13000, -13000>>>>}
MidSegInputs == {<<<<"P">>, <<"Q">>>>, <<<<"Q">>, <<"R">>>>, <<<<"P">>, <<"P">>>>}
MidSegArgs == SegNames(segments) \cup {seg_name(<<"P">>, <<"Q">>)}

DoAddMidEndpoint == \E in \in MidInputs : AddPoint(in[1], in[2])
DoAddMidSegment == \E in \in MidSegInputs : AddSegment(in[1], in[2])
DoMidpointOf == \E s \in MidSegArgs : DrawMidpoint(s)

NextMidpoint ==
  \/ Tick
  \/ DoAddMidEndpoint
  \/ DoAddMidSegment
  \/ DoMidpointOf

SpecMidpoint == Init /\ [][NextMidpoint]_vars

\* ------------------------------------------------ the calculator's origin
\* The point named O as the user may have stored it: at the origin or off it.
OriginInputs ==
  {<<<<"O">>, <<0, 0, 0>>>>,
   <<<<"O">>, <<500, -200, 0>>>>,
   <<<<"A">>, <<12000, 0, 0>>>>}

DoAddOriginPoint == \E in \in OriginInputs : AddPoint(in[1], in[2])

NextOrigin ==
  \/ Tick
  \/ DoAddOriginPoint
  \/ DoAddSegment
  \/ DoCalculate
  \/ DoDeleteCalculation

SpecOrigin == Init /\ [][NextOrigin]_vars

\* ------------------------------------------------ names with the separator
\* Point names as the form accepts them: any text, the underscore included.
NameInputs ==
  {<<<<"A">>, <<0, 0, 0>>>>,
   <<<<"A", Us, "A">>, <<12000, 0, 0>>>>,
   <<<<"B">>, <<0, 12001, 0>>>>}
NamedPoints == {in[1] : in \in NameInputs}

DoAddNamedPoint == \E in \in NameInputs : AddPoint(in[1], in[2])
DoAddNamedSegment == \E start \in NamedPoints, end \in NamedPoints : AddSegment(start, end)

NextNames ==
  \/ DoAddNamedPoint
  \/ DoAddNamedSegment
  \/ DoDeleteSegment

SpecNames == Init /\ [][NextNames]_vars

\* ------------------------------------------------ circles and their centers
NextCircles ==
  \/ DoAddBasePoint
  \/ DoAddSegment
  \/ DoCircle
  \/ DoDeletePoint
  \/ DoCalculateLiteral
  \/ DoDeleteCalculation
  \/ ClearAllCalculations

SpecCircles == Init /\ [][NextCircles]_vars

\* ------------------------------------------------ lines through a point
\* A point above the plane and two in it, and base segments that fall to
\* the plane, lie in it, or have no length.
LineInputs ==
  {<<<<"P">>, <<200, -300, 700>>>>,
   <<<<"Q">>, <<-1000, 400, 0>>>>,
   <<<<"R">>, <<3000, 1000, 0>>>>}
LinePoints == {in[1] : in \in LineInputs}
LineSegInputs == {<<<<"P">>, <<"Q">>>>, <<<<"Q">>, <<"R">>>>, <<<<"R">>, <<"R">>>>}
LineSegArgs == SegNames(segments) \cup {seg_name(<<"P">>, <<"Q">>)}

DoAddLinePoint == \E in \in LineInputs : AddPoint(in[1], in[2])
DoAddLineSegment == \E in \in LineSegInputs : AddSegment(in[1], in[2])
DoPerpendicularThrough == \E p \in LinePoints, s \in LineSegArgs : DrawPerpendicular(p, s)
DoParallelThrough == \E p \in LinePoints, s \in LineSegArgs : DrawParallel(p, s)

NextLines ==
  \/ Tick
  \/ DoAddLinePoint
  \/ DoAddLineSegment
  \/ DoPerpendicularThrough
  \/ DoParallelThrough
  \/ Analyze

SpecLines == Init /\ [][NextLines]_vars

\* ---------------------------------------------------------------- the angle
\* The vectors vector_angle is applied to: the zero vector, vectors along and
\* between the axes, opposite pairs, and a vector as short as 1e-200.
Zero == <<0, 0, 0>>
AngleVectors ==
  {Zero, <<1200, 0, 0>>, <<-1200, 0, 0>>, <<0, 500, 0>>, <<0, -500, 0>>,
   <<0, 0, 7>>, <<0, 0, -7>>, <<3, 4, 0>>, <<1200, 50, 0>>, <<1, 1, 1>>,
   <<FTiny, 0, 0>>}

\* A call of GeometryAnalyzer.vector_angle(vec1, vec2).
VectorAngle(vec1, vec2) ==
  /\ last' = DoneWith("vector_angle", "ok", EmptyName, EmptyName,
                      [vec1 |-> vec1, vec2 |-> vec2, angle |-> vector_angle(vec1, vec2)])
  /\ UNCHANGED <<points, segments, vectors_to_display, circles_and_spheres, clock>>

DoVectorAngle == \E vec1 \in AngleVectors, vec2 \in AngleVectors : VectorAngle(vec1, vec2)
DoCalculateAngle ==
  \E in \in CalcInputs : CalculateVector(in[1], parse_literals(in[2][1], in[2][2]), "angle")

NextAngle ==
  \/ DoAddBasePoint
  \/ DoVectorAngle
  \/ DoCalculateAngle

SpecAngle == Init /\ [][NextAngle]_vars

\* ------------------------------------------------ properties of the store
\* C1: in every reachable state both endpoints of every stored segment are
\* stored points.
C1_EndpointsStored ==
  \A i \in 1..Len(segments) :
     segments[i].start \in DOMAIN points /\ segments[i].end \in DOMAIN points

\* C2: delete_point on an existing point P, confirmed, removes P and exactly
\* the segments that start or end at P; every other point and segment stays
\* as it was and the segment count drops by the number of dependents.
C2_DeletePointCascade ==
  [][\A p \in DOMAIN points :
       DeletePoint(p, TRUE) =>
         LET dep == {i \in 1..Len(segments) :
                       segments[i].start = p \/ segments[i].end = p}
         IN  /\ points' = [n \in DOMAIN points \ {p} |-> points[n]]
             /\ segments' = SelectSeq(segments, LAMBDA s : s.start # p /\ s.end # p)
             /\ Len(segments') = Len(segments) - Cardinality(dep)
             /\ last'.res = "ok"]_vars

\* A point with a dependent segment was deleted and another segment is left.
C2_CascadeHappened ==
  /\ last.op = "delete_point"
  /\ last.res = "ok"
  /\ Len(last.b) >= 1
  /\ last.a \notin DOMAIN points
  /\ segments # << >>

\* C3: after delete_point has removed a point, no displayed-vector record
\* names that point as its start or its end.
C3_VectorsDropped ==
  (last.op = "delete_point" /\ last.res = "ok") =>
     \A i \in 1..Len(vectors_to_display) :
        vectors_to_display[i].start # last.a /\ vectors_to_display[i].end # last.a

\* C6: add_segment fails and leaves points and segments unchanged when an
\* endpoint is not a stored point or the derived name is already a segment;
\* otherwise it appends exactly one segment, under the derived name.
C6_AddSegment ==
  [][\A in \in SegInputs :
       AddSegment(in[1], in[2]) =>
         LET derived == in[1] \o <<"_">> \o in[2]
         IN  /\ points' = points
             /\ IF \/ in[1] \notin DOMAIN points
                   \/ in[2] \notin DOMAIN points
                   \/ \E i \in 1..Len(segments) : segments[i].name = derived
                  THEN segments' = segments /\ last'.res = "fail"
                  ELSE /\ Len(segments') = Len(segments) + 1
                       /\ SubSeq(segments', 1, Len(segments)) = segments
                       /\ segments'[Len(segments')].name = derived
                       /\ segments'[Len(segments')].start = in[1]
                       /\ segments'[Len(segments')].end = in[2]
                       /\ last'.res = "ok"]_vars

\* add_segment was refused because the derived name is already stored.
C6_DuplicateRefused ==
  /\ last.op = "add_segment"
  /\ last.res = "fail"
  /\ last.a \in DOMAIN points
  /\ last.b \in DOMAIN points
  /\ seg_name(last.a, last.b) \in SegNames(segments)

\* ------------------------------------------ properties of the constructions
\* The segment named s is stored and both its endpoints are stored points.
Sound(s) ==
  /\ s \in SegNames(segments)
  /\ ~Dangling(points, SegByName(segments, s))

\* One point was added, under a name that was not in the store, and no other
\* point changed.
OnePointAdded ==
  /\ Cardinality(DOMAIN points') = Cardinality(DOMAIN points) + 1
  /\ \A n \in DOMAIN points : n \in DOMAIN points' /\ points'[n] = points[n]

\* C8: with a segment whose endpoint is not a stored point in the store,
\* analyze_relations and the four constructions end with a defined failure,
\* never with an exception that nothing handles.
C8_NoUnhandledException ==
  last.op \in {"analyze", "create_perpendicular", "create_parallel",
               "create_midpoint", "create_circle_or_sphere"}
    => last.res # "exception"

\* C9: every create_perpendicular, create_parallel and create_midpoint call
\* whose arguments are stored (and sound) returns success and adds exactly
\* one point under a new name, and for the two lines exactly one segment,
\* whatever the clock shows.
C9_ConstructionAddsOne ==
  [][\A s \in SegArgs :
       Sound(s) =>
         /\ DrawMidpoint(s) =>
              last'.res = "ok" /\ OnePointAdded /\ segments' = segments
         /\ \A p \in ConstructPoints \cap DOMAIN points :
              (DrawPerpendicular(p, s) \/ DrawParallel(p, s)) =>
                 /\ last'.res = "ok"
                 /\ OnePointAdded
                 /\ Len(segments') = Len(segments) + 1]_vars

\* C10: create_perpendicular, create_parallel and create_circle_or_sphere
\* return failure and leave points, segments and circles unchanged when the
\* named point or the named segment is not stored; so does create_midpoint
\* when the named segment is not stored.
C10_MissingArgumentFails ==
  [][\A s \in SegArgs :
       /\ (s \notin SegNames(segments) /\ DrawMidpoint(s)) =>
             /\ last'.res = "fail"
             /\ UNCHANGED <<points, segments, circles_and_spheres>>
       /\ \A p \in ConstructPoints :
             ( /\ p \notin DOMAIN points \/ s \notin SegNames(segments)
               /\ \/ DrawPerpendicular(p, s)
                  \/ DrawParallel(p, s)
                  \/ DrawCircle(p, s) ) =>
                /\ last'.res = "fail"
                /\ UNCHANGED <<points, segments, circles_and_spheres>>]_vars

\* A circle was refused for a stored center because the radius segment is
\* not stored, while the store holds other segments.
C10_CircleRefused ==
  /\ last.op = "create_circle_or_sphere"
  /\ last.res = "fail"
  /\ last.a \in DOMAIN points
  /\ last.b \notin SegNames(segments)
  /\ segments # << >>

\* ------------------------------------------------ properties of the analysis
\* C7: for every pair of segments that analyze_relations compares, exactly
\* one of length_equal and length_diff holds the pair, and every recorded
\* difference is strictly positive.
C7_EqualXorDiff ==
  (last.op = "analyze" /\ last.res = "ok") =>
     LET r == analyze_relations(points, segments)
         pairs == IndexPairs(Len(segments))
         InEqual(a, b) == \E k \in 1..Len(r.length_equal) : r.length_equal[k] = <<a, b>>
         InDiff(a, b) ==
           \E k \in 1..Len(r.length_diff) :
              r.length_diff[k][1] = a /\ r.length_diff[k][2] = b
     IN  /\ \A k \in 1..Len(pairs) :
              InEqual(segments[pairs[k][1]].name, segments[pairs[k][2]].name)
                # InDiff(segments[pairs[k][1]].name, segments[pairs[k][2]].name)
         /\ \A k \in 1..Len(r.length_diff) : r.length_diff[k][3] > 0

\* ------------------------------------------------ properties of add_point
\* C4: every coordinate of every stored point is a finite real: add_point
\* adds nothing when a coordinate resolves to +infinity, -infinity or
\* not-a-number.
C4_CoordinatesFinite ==
  \A n \in DOMAIN points : \A k \in 1..3 : points[n][k] \notin NonFinite

\* C5: add_point is atomic: when the name is already stored, or one of the
\* three coordinate inputs is malformed or still holds a free variable, the
\* call returns failure and the point map is what it was before.
C5_AddPointAtomic ==
  [][\A name \in ConstructPoints, c \in Triples(SymInputs) :
       ( /\ SymAddPoint(name, c)
         /\ \/ name \in DOMAIN points
            \/ \E k \in 1..3 : c[k].kind \in {"bad", "free"} ) =>
          (last'.res = "fail" /\ points' = points)]_vars

\* ---------------------------------------------- properties of the calculator
\* C11: in every reachable state the start and the end of every record in
\* vectors_to_display name points that are in the store.
C11_VectorsReferToPoints ==
  \A i \in 1..Len(vectors_to_display) :
     /\ vectors_to_display[i].start \in DOMAIN points
     /\ vectors_to_display[i].end \in DOMAIN points

\* The points whose name carries the prefix of calculation results.
ResultPoints(pts) == {n \in DOMAIN pts : IsResult(n)}

\* C12: every completed calculator operation, of any of the seven types,
\* adds exactly one new result point and appends one displayed-vector record
\* that ends at that point.
C12_OneResultPoint ==
  [][\A in \in CalcInputs, t \in CalcTypes :
       ( /\ last'.op = "calculate_vector"
         /\ last'.res = "ok"
         /\ last'.a = <<t>>
         /\ CalculateVector(in[1], parse_literals(in[2][1], in[2][2]), t) ) =>
          LET new == ResultPoints(points') \ ResultPoints(points)
          IN  /\ Cardinality(new) = 1
              /\ vectors_to_display' # << >>
              /\ vectors_to_display'[Len(vectors_to_display')].end \in new]_vars

\* The selection names no vector: a combobox is empty or names a point that
\* is not in the store.
Unresolved(sel) == \E k \in 1..4 : sel[k] = EmptyName \/ sel[k] \notin DOMAIN points

\* C13: when the selected point pairs do not resolve, calculate_vector uses
\* the two literal triples (the sum of an addition is the sum of the
\* literals); when a literal is not exactly three numbers it reports an input
\* error and points, segments and displayed vectors are as before.
C13_FallbackOrInputError ==
  [][\A in \in CalcInputs, t \in CalcTypes :
       LET sel == in[1]
           txt == in[2]
       IN
       ( /\ Unresolved(sel)
         /\ last'.op = "calculate_vector"
         /\ last'.a = <<t>>
         /\ CalculateVector(sel, parse_literals(txt[1], txt[2]), t) ) =>
          IF WellFormed(txt[1]) /\ WellFormed(txt[2])
            THEN /\ last'.res = "ok"
                 /\ (t = "add" /\ ResultName(clock) \notin DOMAIN points) =>
                       points'[ResultName(clock)] =
                         <<txt[1][1].v + txt[2][1].v, txt[1][2].v + txt[2][2].v,
                           txt[1][3].v + txt[2][3].v>>
            ELSE /\ last'.res = "fail"
                 /\ UNCHANGED <<points, segments, vectors_to_display>>]_vars

\* An input error was reported while the store held points and displayed
\* vectors of an earlier calculation.
C13_InputErrorReported ==
  /\ last.op = "calculate_vector"
  /\ last.res = "fail"
  /\ ResultPoints(points) # {}
  /\ vectors_to_display # << >>

\* ------------------------------------------------ properties of the circles
\* C14: create_circle_or_sphere stores the length the radius segment has at the
\* moment of creation, and the radius stored under a circle's name is the same
\* in every later state in which the circle exists.
C14_RadiusSnapshot ==
  [][/\ \A n \in DOMAIN circles_and_spheres \cap DOMAIN circles_and_spheres' :
          circles_and_spheres'[n].radius = circles_and_spheres[n].radius
     /\ \A p \in ConstructPoints, s \in SegArgs :
          (last'.res = "ok" /\ DrawCircle(p, s)) =>
             circles_and_spheres'[<<"circle", Us, Stamp(clock)>>].radius =
               vector_magnitude(SegVector(points, SegByName(segments, s)))]_vars

Position(name) == CHOOSE i \in 1..Len(segments) : segments[i].name = name

\* The five lists analyze_relations returned.
Lists(r) == <<r.perpendicular, r.parallel, r.length_ratio, r.length_equal, r.length_diff>>

\* C16: each of the five lists returned by analyze_relations holds every
\* unordered pair of segments at most once, never both (A,B) and (B,A), and
\* the first segment of every entry was inserted before the second.
C16_PairsOnceInOrder ==
  (last.op = "analyze" /\ last.res = "ok") =>
     \A l \in 1..5 :
        LET list == Lists(last.out)[l]
        IN  /\ \A k \in 1..Len(list) :
                 /\ list[k][1] \in SegNames(segments)
                 /\ list[k][2] \in SegNames(segments)
                 /\ Position(list[k][1]) < Position(list[k][2])
            /\ \A j, k \in 1..Len(list) :
                 j # k => /\ <<list[j][1], list[j][2]>> # <<list[k][1], list[k][2]>>
                          /\ <<list[j][1], list[j][2]>> # <<list[k][2], list[k][1]>>

\* An analysis of three segments reported two or more entries in one list.
C16_SeveralPairsReported ==
  /\ last.op = "analyze"
  /\ last.res = "ok"
  /\ Len(segments) >= 3
  /\ Len(last.out.length_ratio) >= 2
  /\ last.out.parallel # << >>

\* ------------------------------------------------ properties of the angle
\* Every component of v is 0 or so small that its square is 0.0.
Vanishing(v) == \A k \in 1..3 : v[k] = 0 \/ v[k] = FTiny

C18_ClearTempFrame ==
  [][ClearTempPoints =>
       /\ DOMAIN points' = {n \in DOMAIN points : ~IsTemp(n)}
       /\ \A n \in DOMAIN points' : points'[n] = points[n]
       /\ vectors_to_display' =
            SelectSeq(vectors_to_display, LAMBDA v : ~(IsTemp(v.start) \/ IsTemp(v.end)))
       /\ UNCHANGED <<segments, circles_and_spheres>>]_vars

\* A cleanup removed a point and left other points, a record and a segment
\* that ends at the removed point.
C18_TempPointsCleared ==
  /\ last.op = "clear_temp_points"
  /\ last.out.removed # {}
  /\ points # << >>
  /\ vectors_to_display # << >>
  /\ \E i \in 1..Len(segments) : segments[i].end \in last.out.removed

\* ------------------------------------------------ properties of delete_segment
\* C19: a confirmed delete_segment on a stored name removes that segment and
\* nothing else: the other segments keep their order and contents, points
\* and displayed vectors (and circles) are unchanged; on a name that is not a
\* stored segment it reports the error and changes nothing.
C19_DeleteSegmentFrame ==
  [][\A s \in SegArgs :
       (last'.op = "delete_segment" /\ DeleteSegment(s, TRUE)) =>
          /\ UNCHANGED <<points, vectors_to_display, circles_and_spheres>>
          /\ IF s \in SegNames(segments)
               THEN /\ last'.res = "ok"
                    /\ segments' = SelectSeq(segments, LAMBDA x : x.name # s)
                    /\ Len(segments') = Len(segments) - 1
               ELSE /\ last'.res = "fail"
                    /\ segments' = segments]_vars

\* A segment was deleted from a store that keeps another segment, its points
\* and displayed vectors.
C19_SegmentDeleted ==
  /\ last.op = "delete_segment"
  /\ last.res = "ok"
  /\ last.a \notin SegNames(segments)
  /\ segments # << >>
  /\ points # << >>
  /\ vectors_to_display # << >>

\* ------------------------------------------------ properties of the midpoint
\* The distance between two stored coordinate triples.
Distance(a, b) == vector_magnitude(<<b[1] - a[1], b[2] - a[2], b[3] - a[3]>>)

\* C20: create_midpoint on a stored segment (A,B) succeeds, and the point M
\* under the midpoint's name has on each of the three axes the mean of the
\* coordinates of A and B, so that distance(A,M) = distance(M,B); A = B and
\* endpoints of different z included.
C20_MidpointIsMean ==
  [][\A s \in MidSegArgs :
       ( /\ s \in SegNames(segments)
         /\ last'.op = "create_midpoint"
         /\ DrawMidpoint(s) ) =>
          LET seg == SegByName(segments, s)
              A == points[seg.start]
              B == points[seg.end]
              name == <<"mid", Us>> \o s \o <<Us, Stamp(clock)>>
          IN  /\ last'.res = "ok"
              /\ name \in DOMAIN points'
              /\ \A k \in 1..3 : 2 * points'[name][k] = A[k] + B[k]
              /\ Distance(A, points'[name]) = Distance(points'[name], B)]_vars

\* A midpoint was created between endpoints of different z, away from both.
C20_MidpointCreated ==
  /\ last.op = "create_midpoint"
  /\ last.res = "ok"
  /\ \E i \in 1..Len(segments) :
        /\ segments[i].name = last.b
        /\ segments[i].start \in DOMAIN points
        /\ segments[i].end \in DOMAIN points
        /\ points[segments[i].start][3] # points[segments[i].end][3]
        /\ \E m \in DOMAIN points :
              /\ startswith(m, <<"mid", Us>>)
              /\ points[m][3] # points[segments[i].start][3]
              /\ points[m][3] # points[segments[i].end][3]

\* ------------------------------------------------ properties of the lines
\* The name create_perpendicular gives to the end of its line at time now.
PerpEnd(now) == <<"perp", Us, "end", Us, Stamp(now)>>
ParallelEnd(now) == <<"parallel", Us, "end", Us, Stamp(now)>>

\* C21: create_perpendicular(P, S) with S = (A, B), called when the name of
\* the new point is free, puts the new point at (P.x - (B.y - A.y),
\* P.y + (B.x - A.x), P.z), whatever the z of A and B, and appends the
\* segment from P to the new point.
C21_PerpendicularPlacement ==
  [][\A p \in LinePoints, s \in LineSegArgs :
       ( /\ p \in DOMAIN points
         /\ Sound(s)
         /\ PerpEnd(clock) \notin DOMAIN points
         /\ last'.op = "create_perpendicular"
         /\ DrawPerpendicular(p, s) ) =>
          LET seg == SegByName(segments, s)
              A == points[seg.start]
              B == points[seg.end]
              P == points[p]
          IN  /\ last'.res = "ok"
              /\ PerpEnd(clock) \in DOMAIN points'
              /\ points'[PerpEnd(clock)] =
                   <<P[1] - (B[2] - A[2]), P[2] + (B[1] - A[1]), P[3]>>
              /\ Len(segments') = Len(segments) + 1
              /\ segments'[Len(segments')].start = p
              /\ segments'[Len(segments')].end = PerpEnd(clock)]_vars

\* A perpendicular was drawn through a point with z # 0 on a base segment
\* whose endpoints differ in z.
C21_PerpendicularDrawn ==
  /\ last.op = "create_perpendicular"
  /\ last.res = "ok"
  /\ last.a \in DOMAIN points
  /\ points[last.a][3] # 0
  /\ \E i \in 1..Len(segments) :
        /\ segments[i].name = last.b
        /\ ~Dangling(points, segments[i])
        /\ points[segments[i].start][3] # points[segments[i].end][3]
  /\ \E j \in 1..Len(segments) :
        /\ segments[j].start = last.a
        /\ segments[j].end \in DOMAIN points
        /\ startswith(segments[j].end, <<"perp", Us>>)
        /\ points[segments[j].end][3] = points[last.a][3]

\* A stored segment whose two ends have the same coordinates.
ZeroLength(seg) ==
  /\ ~Dangling(points, seg)
  /\ points[seg.start] = points[seg.end]

\* The analysis of the maps as the step leaves them lists the pair (s, n).
ThenPerpendicular(s, n) ==
  LET r == analyze_relations(points', segments')
  IN  r.res = "ok" /\ \E k \in 1..Len(r.perpendicular) : r.perpendicular[k] = <<s, n>>
ThenParallel(s, n) ==
  LET r == analyze_relations(points', segments')
  IN  r.res = "ok" /\ \E k \in 1..Len(r.parallel) : r.parallel[k] = <<s, n>>

\* The two ends of the stored segment named s are at the same height.
Level(s) ==
  LET seg == SegByName(segments, s)
  IN  points[seg.start][3] = points[seg.end][3]

\* create_perpendicular(p, s) is called on a stored point and a stored
\* segment with both ends stored, when the name of the new point is free.
PerpendicularCall(p, s) ==
  /\ last'.op = "create_perpendicular"
  /\ p \in DOMAIN points
  /\ Sound(s)
  /\ PerpEnd(clock) \notin DOMAIN points
  /\ DrawPerpendicular(p, s)
ParallelCall(p, s) ==
  /\ last'.op = "create_parallel"
  /\ p \in DOMAIN points
  /\ Sound(s)
  /\ ParallelEnd(clock) \notin DOMAIN points
  /\ DrawParallel(p, s)

Place(name) == CHOOSE i \in 1..Len(segments) : segments[i].name = name

\* A ratio entry for the two named segments is in the list.
HasRatio(list, n1, n2) == \E k \in 1..Len(list) : list[k][1] = n1 /\ list[k][2] = n2

\* C22: the analysis records a length_ratio entry for the pair (i, j)
\* exactly when the length of segment j is not zero.
C22_RatioIffDivisorNonZero ==
  (last.op = "analyze_all_relations" /\ last.res = "ok") =>
     \A i \in 1..Len(segments), j \in 1..Len(segments) :
        i < j =>
          (HasRatio(last.out.length_ratio, segments[i].name, segments[j].name)
             <=> segment_length_sq(points, segments[j]) # 0)

InList(list, n1, n2) == \E k \in 1..Len(list) : list[k] = <<n1, n2>>

\* C23: after an analysis, every pair of segments of which one has zero
\* length is in the perpendicular list and in the parallel list.
C23_ZeroLengthBothWays ==
  (last.op = "analyze" /\ last.res = "ok") =>
     \A i \in 1..Len(segments), j \in 1..Len(segments) :
        (i < j /\ (ZeroLength(segments[i]) \/ ZeroLength(segments[j]))) =>
           /\ InList(last.out.perpendicular, segments[i].name, segments[j].name)
           /\ InList(last.out.parallel, segments[i].name, segments[j].name)

\* An analysis of three segments, a zero-length one among them, that
\* reported two pairs in both lists.
C23_ZeroLengthCompared ==
  /\ last.op = "analyze"
  /\ last.res = "ok"
  /\ Len(segments) = 3
  /\ \E i \in 1..3 : ZeroLength(segments[i])
  /\ \E i \in 1..3 : ~ZeroLength(segments[i])
  /\ Len(last.out.perpendicular) >= 2
  /\ Len(last.out.parallel) >= 2

\* (i1, j1) comes before (i2, j2) in lexicographic order.
LexBefore(i1, j1, i2, j2) == i1 < i2 \/ (i1 = i2 /\ j1 < j2)

\* The entries of a relation list name pairs (i, j) of places in the
\* segment map with i < j, in ascending lexicographic order.
InPairOrder(list) ==
  /\ \A k \in 1..Len(list) :
        /\ list[k][1] \in SegNames(segments)
        /\ list[k][2] \in SegNames(segments)
        /\ Place(list[k][1]) < Place(list[k][2])
  /\ \A k \in 1..(Len(list) - 1) :
        LexBefore(Place(list[k][1]), Place(list[k][2]),
                  Place(list[k + 1][1]), Place(list[k + 1][2]))

\* The segments of the map before the step that are still in it after the
\* step are in the same order.
OrderKept ==
  \A i \in 1..Len(segments), j \in 1..Len(segments) :
     (/\ i < j
      /\ segments[i].name \in SegNames(segments')
      /\ segments[j].name \in SegNames(segments')) =>
        (CHOOSE k \in 1..Len(segments') : segments'[k].name = segments[i].name)
          < (CHOOSE k \in 1..Len(segments') : segments'[k].name = segments[j].name)

\* C24: each list of an analysis is in lexicographic order of the places
\* (i, j), i < j, its segments have in the map; a step keeps the order of the
\* segments that stay, and a segment added by a step, whether or not it was
\* in the map at some earlier time, takes the last place.
C24_ListsInInsertionOrder ==
  /\ []((last.op = "analyze" /\ last.res = "ok") =>
          \A l \in 1..5 : InPairOrder(Lists(last.out)[l]))
  /\ [][/\ OrderKept
        /\ \A k \in 1..Len(segments') :
              segments'[k].name \notin SegNames(segments) => k = Len(segments')]_vars

\* An analysis of three segments with O_A in the last place and O_B in the
\* first, as after a deletion and a second insertion of O_A, that reported
\* more than one pair in a list.
C24_ReinsertedAnalysed ==
  /\ last.op = "analyze"
  /\ last.res = "ok"
  /\ Len(segments) = 3
  /\ segments[1].name = seg_name(<<"O">>, <<"B">>)
  /\ segments[3].name = seg_name(<<"O">>, <<"A">>)
  /\ Len(last.out.length_diff) >= 2

\* The magnitude of c is below the tolerance DotTol = 2000 * 2000: the
\* squares are summed in two digits of base 2000 to stay within 32 bits.
MagnitudeBelowTol(c) ==
  /\ \A k \in 1..3 : Abs(c[k]) < DotTol
  /\ LET a(k) == Abs(c[k]) \div 2000
         b(k) == Abs(c[k]) % 2000
         A == a(1) * a(1) + a(2) * a(2) + a(3) * a(3)
         B == a(1) * b(1) + a(2) * b(2) + a(3) * b(3)
         C == b(1) * b(1) + b(2) * b(2) + b(3) * b(3)
         low == 4000 * (B % 1000) + C
     IN  A + (B \div 1000) + (low \div DotTol) < DotTol

\* C25: a pair is reported perpendicular exactly when |dot| < 1e-6, parallel
\* exactly when the magnitude of the cross product is < 1e-6, and of equal
\* length exactly when the lengths differ by less than 1e-6.
C25_OneTolerance ==
  (last.op = "analyze" /\ last.res = "ok") =>
     \A i \in 1..Len(segments), j \in 1..Len(segments) :
        i < j =>
          LET v1 == SegVector(points, segments[i])
              v2 == SegVector(points, segments[j])
              n1 == segments[i].name
              n2 == segments[j].name
          IN  /\ InList(last.out.perpendicular, n1, n2)
                   <=> Abs(vector_dot(v1, v2)) < DotTol
              /\ InList(last.out.parallel, n1, n2)
                   <=> MagnitudeBelowTol(vector_cross(v1, v2))
              /\ InList(last.out.length_equal, n1, n2)
                   <=> Abs(vector_magnitude(v1) - vector_magnitude(v2)) < LenTol

\* ------------------------------------------- properties of the circles
\* C26: the center of every stored circle or sphere is a point that is in
\* the store.
C26_CenterStored ==
  \A c \in DOMAIN circles_and_spheres :
     circles_and_spheres[c].center \in DOMAIN points

\* C27: a vector calculation leaves the coordinates of every point that is
\* in the store before and after it as they were, and with them the vector
\* of every segment.
C27_CalculationKeepsPoints ==
  [][last'.op = "calculate_vector" =>
       /\ \A n \in DOMAIN points \cap DOMAIN points' : points'[n] = points[n]
       /\ \A i \in 1..Len(segments) :
             SegVector(points', segments[i]) = SegVector(points, segments[i])]_vars

\* ------------------------------------------- properties of segment names
\* C28: add_segment(start, end) on two stored points succeeds whenever no
\* stored segment has that start and that end.
C28_NameIdentifiesPair ==
  [][\A start \in NamedPoints, end \in NamedPoints :
       ( /\ last'.op = "add_segment"
         /\ start \in DOMAIN points
         /\ end \in DOMAIN points
         /\ \A i \in 1..Len(segments) :
               ~(segments[i].start = start /\ segments[i].end = end)
         /\ AddSegment(start, end) ) =>
          last'.res = "ok"]_vars

\* ------------------------------------ properties of the symbolic analyzer
\* C30: for every stored segment the symbolic analyzer takes the length
\* from all three components of end - start, and for every two stored
\* segments the dot and the cross product from all three components.
C30_ThreeComponents ==
  /\ \A i \in 1..Len(segments) :
        LET v == segment_vector(points, segments[i])
        IN  segment_length_sq(points, segments[i]) = v[1] * v[1] + v[2] * v[2] + v[3] * v[3]
  /\ \A i \in 1..Len(segments), j \in 1..Len(segments) :
        i < j =>
          LET v1 == segment_vector(points, segments[i])
              v2 == segment_vector(points, segments[j])
          IN  /\ sym_dot(points, segments[i], segments[j]) = vector_dot(v1, v2)
              /\ sym_cross(points, segments[i], segments[j]) = vector_cross(v1, v2)
====
